---- MODULE Spec2Model ----
(***************************************************************************)
(* Model of src/digole.py: the protocol core of the Digole serial display  *)
(* driver (DigolePrimitive: chunked writer, command encoder, instruction   *)
(* recorder; DigoleDisplay: response correlator).                          *)
(*                                                                         *)
(* Byte sequences are sequences of integers 0..255.  The transport (the    *)
(* injected i2c object) is the environment: each i2c.writeto either        *)
(* succeeds or raises an OSError, chosen by the action's inputs.           *)
(***************************************************************************)
EXTENDS Integers, Sequences, FiniteSets, TLC

VARIABLES
    _paperTrail,    \* DigolePrimitive._paperTrail: None or an io.BytesIO
    dataDelay,      \* DigolePrimitive.dataDelay (ms)
    bus,            \* what the last operation did on the transport, in order
    outcome,        \* the last operation: its name, argument, result, exception
    live,           \* bytes delivered to the transport since startRecording
    script,         \* bytes the caller obtained from the last stopRecording
    recorded,       \* bytes the transport received in the session `script` is from
    _waitBuffer,    \* DigoleDisplay._waitBuffer: the pending read requests
    _inBuffer,      \* DigoleDisplay._inBuffer: raw values read, not yet bound
    now,            \* the clock, getTicks_ms()
    platform,       \* sys.implementation.name
    result,         \* the list the last doCheck returned
    steps,          \* what the walk of the last doCheck did, entry by entry
    satisfied,      \* ids of the requests raw values were ever bound to
    expiredSeen,    \* ids of the requests a walk examined and found expired
    nextId,         \* the number of requests registered so far, plus one
    frame           \* the call of waitUntilReady in progress, if any

recVars  == <<_paperTrail, dataDelay, live, script, recorded>>
corrVars == <<_waitBuffer, _inBuffer, now, platform, result, steps,
              satisfied, expiredSeen, nextId, frame>>
vars == <<_paperTrail, dataDelay, bus, outcome, live, script, recorded,
          _waitBuffer, _inBuffer, now, platform, result, steps,
          satisfied, expiredSeen, nextId, frame>>

----------------------------------------------------------------------------
(* Bounds of the model *)

\* longest byte sequence handed to executeScript by the caller
MaxLen == 130
\* largest integer argument given to a command
MaxInt == 520
\* requests registered in one run, and the clock's last value
MaxRequests == 3
MaxTime == 3000
\* the raw queue is not grown beyond this many values
MaxRaw == 3
\* the recording buffer is not grown beyond this many bytes
MaxRec == 130
\* nor, by commands, beyond this many
MaxSession == 54
\* size in bytes of the largest file sent
MaxFile == 300

(* Program constants *)

\* len(v) > 64 / range(0, len(v), 64)
ChunkSize == 64
\* class EventCode
CLICK == 1
ANALOG == 2
TEMP == 3
VOLTAGE == 4
\* getDeltaTime(timeStamp) > 2000
TimeOut == 2000
\* args[0] > 1000
ClickLimit == 1000
\* chunk = f.read(128)
FileChunk == 128
\* self.dataDelay = 40 and sleep_ms(40); sleep_ms(200)
SlowDelay == 40
SettleDelay == 200

NoExc == ""

----------------------------------------------------------------------------
(* Generic helpers *)

Min(a, b) == IF a < b THEN a ELSE b

\* v[i:j] of Python, for 0 <= i
Slice(v, i, j) == SubSeq(v, i + 1, Min(j, Len(v)))

RECURSIVE Flatten(_)
Flatten(ss) == IF ss = <<>> THEN <<>> ELSE Head(ss) \o Flatten(Tail(ss))

\* entries of the transport log
W(v) == [k |-> "write", d |-> v]
S(ms) == [k |-> "sleep", d |-> <<ms>>]

RECURSIVE Writes(_)
\* the segments handed to i2c.writeto, in order
Writes(log) ==
    IF log = <<>> THEN <<>>
    ELSE IF Head(log).k = "write" THEN <<Head(log).d>> \o Writes(Tail(log))
    ELSE Writes(Tail(log))

\* the byte stream the transport received
Stream(log) == Flatten(Writes(log))

\* a byte sequence of length n whose bytes differ from position to position
Bytes(n) == [i \in 1..n |-> (n + 3 * i) % 256]

Lens == {0, 40, ChunkSize, ChunkSize + 1, MaxLen}
Inputs == {Bytes(n) : n \in Lens}

\* OSError conditions the transport can raise on a write
WriteErrors == {"EIO"}

----------------------------------------------------------------------------
(* io.BytesIO: a buffer and a stream position.  None, the value of          *)
(* _paperTrail while no stream exists, is the record that is not open.      *)

None == [open |-> FALSE, buf |-> <<>>, pos |-> 0]

BytesIO(initial) == [open |-> TRUE, buf |-> initial, pos |-> 0]

RECURSIVE Zeros(_)
Zeros(n) == IF n <= 0 THEN <<>> ELSE <<0>> \o Zeros(n - 1)

\* stream.write(v): overwrite/extend at the stream position, advance it
BytesIOWrite(s, v) ==
    LET pad == IF s.pos > Len(s.buf) THEN s.buf \o Zeros(s.pos - Len(s.buf)) ELSE s.buf
    IN  [open |-> TRUE,
         buf |-> SubSeq(pad, 1, s.pos) \o v \o SubSeq(pad, s.pos + Len(v) + 1, Len(pad)),
         pos |-> s.pos + Len(v)]

\* stream.seek(offset, whence): whence 0 = from the start, 2 = from the end;
\* the new position is also the value seek returns
BytesIOSeek(s, offset, whence) ==
    [s EXCEPT !.pos = IF whence = 2 THEN Len(s.buf) + offset ELSE offset]

\* stream.getvalue(): the whole buffer, whatever the position
BytesIOGetValue(s) == s.buf

\* stream.read(): the bytes from the position to the end
BytesIORead(s) == SubSeq(s.buf, s.pos + 1, Len(s.buf))

----------------------------------------------------------------------------
(* DigolePrimitive *)

isRecording(pt) == pt # None

\* The running state of one call into the driver: the recording stream, the
\* transport log, the raised exception (NoExc while none) and the number of
\* i2c.writeto calls made so far.
Call(pt) == [pt |-> pt, log |-> <<>>, exc |-> NoExc, n |-> 0]

NoFail == [at |-> 0, err |-> NoExc]

\* the transport's failure caught and dropped, the segment lost
WriteSegmentSwallows(c, v, fail) ==
    IF c.exc # NoExc THEN c
    ELSE IF c.n + 1 = fail.at THEN [c EXCEPT !.n = @ + 1]
    ELSE [c EXCEPT !.n = @ + 1,
                   !.log = Append(@, W(v)),
                   !.pt = IF isRecording(@) THEN BytesIOWrite(@, v) ELSE @]

\* lines 60-62: one segment to the transport, then to the recording.
\* fail.at names the i2c.writeto call (counted within the operation) that
\* raises OSError(fail.err); 0 = none.
WriteSegment(c, v, fail) ==
    IF c.exc # NoExc THEN c
    ELSE IF c.n + 1 = fail.at THEN [c EXCEPT !.n = @ + 1, !.exc = fail.err]
    ELSE [c EXCEPT !.n = @ + 1,
                   !.log = Append(@, W(v)),
                   !.pt = IF isRecording(@) THEN BytesIOWrite(@, v) ELSE @]

\* line 58: sleep_ms(ms)
Sleep(c, ms) == IF c.exc # NoExc THEN c ELSE [c EXCEPT !.log = Append(@, S(ms))]

\* the slice one byte short: v[i:i+63]
ChunkShort(v, i) == Slice(v, i, i + ChunkSize - 1)

\* the slice one byte long: v[i:i+65]
ChunkLong(v, i) == Slice(v, i, i + ChunkSize + 1)

\* line 56: chunk = v[i:i+64]
Chunk(v, i) == Slice(v, i, i + ChunkSize)

RECURSIVE WriteChunks(_, _, _, _, _)
\* lines 55-58: for i in range(0, len(v), 64); the recursive _write(chunk)
\* always takes the else branch, a chunk being at most 64 bytes long
WriteChunks(c, v, i, delay, fail) ==
    IF i >= Len(v) \/ c.exc # NoExc THEN c
    ELSE WriteChunks(Sleep(WriteSegment(c, Chunk(v, i), fail), delay),
                     v, i + ChunkSize, delay, fail)

\* _write recording the sequence as passed and then again chunk by chunk
_writeRecordsTwice(c, v, delay, fail) ==
    IF c.exc # NoExc THEN c
    ELSE IF Len(v) > ChunkSize
    THEN WriteChunks([c EXCEPT !.pt = IF isRecording(@) THEN BytesIOWrite(@, v) ELSE @],
                     v, 0, delay, fail)
    ELSE WriteSegment(c, v, fail)

\* lines 50-64
_write(c, v, delay, fail) ==
    IF c.exc # NoExc THEN c
    ELSE IF Len(v) > ChunkSize THEN WriteChunks(c, v, 0, delay, fail)
    ELSE WriteSegment(c, v, fail)

\* the number of i2c.writeto calls _write(v) makes when none fails
NumSegments(v) ==
    IF Len(v) > ChunkSize THEN (Len(v) + ChunkSize - 1) \div ChunkSize ELSE 1

Fails(v) == {NoFail} \cup
            {[at |-> k, err |-> e] : k \in 1..NumSegments(v), e \in WriteErrors}

\* int.to_bytes(1, "big"): one byte, OverflowError outside 0..255
ToBytes1(n) ==
    IF n >= 0 /\ n <= 255 THEN [exc |-> NoExc, bytes |-> <<n>>]
    ELSE [exc |-> "OverflowError", bytes |-> <<>>]

\* str.encode("utf-8") of one code point
Utf8Char(cp) ==
    IF cp < 128 THEN <<cp>>
    ELSE IF cp < 2048 THEN <<192 + (cp \div 64), 128 + (cp % 64)>>
    ELSE IF cp < 65536
    THEN <<224 + (cp \div 4096), 128 + ((cp \div 64) % 64), 128 + (cp % 64)>>
    ELSE <<240 + (cp \div 262144), 128 + ((cp \div 4096) % 64),
           128 + ((cp \div 64) % 64), 128 + (cp % 64)>>

RECURSIVE Utf8(_)
\* str.encode("utf-8") of a text given as its code points
Utf8(text) == IF text = <<>> THEN <<>> ELSE Utf8Char(Head(text)) \o Utf8(Tail(text))

\* Arguments of _sendCommand by Python type.  `v` holds the bytes of a bytes
\* object, the value of an int, the code points of a str, and for any other
\* object the code points of str(arg).
BytesArg(b) == [t |-> "bytes", v |-> b]
IntArg(n)   == [t |-> "int",   v |-> <<n>>]
NoneArg     == [t |-> "None",  v |-> <<>>]
StrArg(cps) == [t |-> "str",   v |-> cps]
OtherArg(cps) == [t |-> "other", v |-> cps]

\* the extension taken when arg > 255 instead of arg >= 255
EncodeIntStrict(n) ==
    IF n > 255
    THEN LET r == ToBytes1(n - 255) IN [exc |-> r.exc, bytes |-> <<255>> \o r.bytes]
    ELSE ToBytes1(n)

\* lines 131-136: the bytes an int argument contributes
EncodeInt(n) ==
    IF n >= 255
    THEN LET r == ToBytes1(n - 255) IN [exc |-> r.exc, bytes |-> <<255>> \o r.bytes]
    ELSE ToBytes1(n)

\* text encoded without the trailing zero byte
EncodeArgNoTerminator(arg) ==
    IF arg.t = "bytes" THEN [exc |-> NoExc, bytes |-> arg.v]
    ELSE IF arg.t = "int" THEN EncodeInt(arg.v[1])
    ELSE IF arg.t = "None" THEN [exc |-> NoExc, bytes |-> <<>>]
    ELSE [exc |-> NoExc, bytes |-> Utf8(arg.v)]

\* lines 128-144: the bytes one argument contributes
EncodeArg(arg) ==
    IF arg.t = "bytes" THEN [exc |-> NoExc, bytes |-> arg.v]
    ELSE IF arg.t = "int" THEN EncodeInt(arg.v[1])
    ELSE IF arg.t = "None" THEN [exc |-> NoExc, bytes |-> <<>>]
    ELSE [exc |-> NoExc, bytes |-> Utf8(arg.v) \o ToBytes1(0).bytes]

RECURSIVE EncodeArgs(_, _)
\* lines 127-144: command += ... for arg in args; an exception ends the loop
EncodeArgs(command, args) ==
    IF args = <<>> THEN [exc |-> NoExc, bytes |-> command]
    ELSE LET r == EncodeArg(Head(args))
         IN  IF r.exc # NoExc THEN [exc |-> r.exc, bytes |-> command]
             ELSE EncodeArgs(command \o r.bytes, Tail(args))

\* the command written as far as it was encoded when an argument fails
_sendCommandWritesPartial(c, command, args, delay, fail) ==
    LET e == EncodeArgs(command, args)
    IN  IF c.exc # NoExc THEN c
        ELSE IF e.exc # NoExc
        THEN [_write(c, e.bytes, delay, fail) EXCEPT !.exc = e.exc]
        ELSE _write(c, e.bytes, delay, fail)

\* lines 122-145
_sendCommand(c, command, args, delay, fail) ==
    LET e == EncodeArgs(command, args)
    IN  IF c.exc # NoExc THEN c
        ELSE IF e.exc # NoExc THEN [c EXCEPT !.exc = e.exc]
        ELSE _write(c, e.bytes, delay, fail)

\* str(['x', 'y', 'w', 'h', 'imageData']) and str(()), the two arguments
\* line 335 passes ahead of the coordinates
ListText ==
    <<91, 39, 120, 39, 44, 32, 39, 121, 39, 44, 32, 39, 119, 39, 44, 32,
      39, 104, 39, 44, 32, 39, 105, 109, 97, 103, 101, 68, 97, 116, 97, 39, 93>>
TupleText == <<40, 41>>

\* lines 328-335: drawImage(mode, x, y, w, h, imageData) for mode >= 0; x,
\* y, w, h are ints, imageData is None or a bytes object.  The assert of
\* line 334 raises AssertionError.
drawImage(c, mode, x, y, w, h, imageData, delay, fail) ==
    IF mode = 0
    THEN _sendCommand(c, <<68, 73, 77>>,
                      <<IntArg(x), IntArg(y), IntArg(w), IntArg(h), imageData>>,
                      delay, fail)
    ELSE IF ~(imageData = NoneArg \/ Len(imageData.v) = mode * w * h)
    THEN [c EXCEPT !.exc = "AssertionError"]
    ELSE _sendCommand(c, <<69, 68, 73, 77>> \o <<mode + 48>>,
                      <<OtherArg(ListText), OtherArg(TupleText),
                        IntArg(x), IntArg(y), IntArg(w), IntArg(h), imageData>>,
                      delay, fail)

\* A file on disk: missing, or holding `data`.
File(data) == [exists |-> TRUE, data |-> data]
NoFile == [exists |-> FALSE, data |-> <<>>]

\* lines 148-152: the size of the file, FileNotFoundError when it is missing
_getFileSize(file) ==
    IF file.exists THEN [exc |-> NoExc, size |-> Len(file.data)]
    ELSE [exc |-> "FileNotFoundError", size |-> 0]

RECURSIVE SendFileChunks(_, _, _, _, _)
\* lines 158-164: chunk = f.read(128) until it is empty; self._write(chunk)
SendFileChunks(c, data, i, delay, fail) ==
    IF i >= Len(data) \/ c.exc # NoExc THEN c
    ELSE SendFileChunks(_write(c, Slice(data, i, i + FileChunk), delay, fail),
                        data, i + FileChunk, delay, fail)

\* lines 155-164 (the file was opened by _getFileSize before)
_sendFile(c, file, delay, fail) == SendFileChunks(c, file.data, 0, delay, fail)

\* bytes([a, b]): ValueError unless both are in 0..255
BytesOf2(c, a, b) ==
    IF a \in 0..255 /\ b \in 0..255 THEN [c |-> c, v |-> <<a, b>>]
    ELSE [c |-> [c EXCEPT !.exc = "ValueError"], v |-> <<>>]

\* b'\ff': the form feed \f (0x0C) and the letter f (0x66)
Terminator == <<12, 102>>

\* lines 167-184: the call state and self.dataDelay afterwards.  An
\* exception leaves the method where it is raised; line 184 is reached only
\* when none was.
_sendLargeFileSlowly(c, stdDelay, file, fail) ==
    LET size == _getFileSize(file)
    IN  IF size.exc # NoExc
        THEN [c |-> [c EXCEPT !.exc = size.exc], dataDelay |-> stdDelay]
        ELSE LET prefix == BytesOf2(c, size.size \div 256, size.size % 256)
                 c1 == Sleep(_write(prefix.c, prefix.v, SlowDelay, fail), SettleDelay)
                 c2 == _sendFile(c1, file, SlowDelay, fail)
                 c3 == Sleep(_write(c2, Terminator, SlowDelay, fail), SlowDelay)
             IN  [c |-> c3,
                  dataDelay |-> IF c3.exc = NoExc THEN stdDelay ELSE SlowDelay]

\* startRecording without the test of line 83
startRecordingAlways(pt) == BytesIO(<<>>)

\* lines 80-84
startRecording(pt) == IF ~isRecording(pt) THEN BytesIO(<<>>) ELSE pt

\* getRecordingSize seeking to the start instead of the end
getRecordingSizeRewinds(pt) ==
    IF ~isRecording(pt) THEN [ret |-> 0, pt |-> pt]
    ELSE LET s == BytesIOSeek(pt, 0, 0) IN [ret |-> s.pos, pt |-> s]

\* lines 87-90: the value returned and the stream afterwards
getRecordingSize(pt) ==
    IF ~isRecording(pt) THEN [ret |-> 0, pt |-> pt]
    ELSE LET s == BytesIOSeek(pt, 0, 2) IN [ret |-> s.pos, pt |-> s]

NoCallback == [calls |-> 0, pos |-> 0, data |-> <<>>, args |-> <<>>]

\* lines 103-108, the body of the try.  streamHandler is "none" (no
\* callback), "returns" (a callback that reads the stream and returns) or
\* "raises" (a callback that raises HandlerError).  The result: the value of
\* `result`, the exception raised, and what the callback was called with.
stopTryNoSeek(pt, streamHandler, args) ==
    IF streamHandler # "none"
    THEN LET size == getRecordingSize(pt)
             s    == size.pt
             cb   == [calls |-> 1, pos |-> s.pos, data |-> BytesIORead(s), args |-> args]
         IN  IF streamHandler = "raises"
             THEN [kind |-> "raise", val |-> <<>>, exc |-> "HandlerError", cb |-> cb]
             ELSE [kind |-> "int", val |-> <<size.ret>>, exc |-> NoExc, cb |-> cb]
    ELSE [kind |-> "bytes", val |-> BytesIOGetValue(pt), exc |-> NoExc, cb |-> NoCallback]

stopTry(pt, streamHandler, args) ==
    IF streamHandler # "none"
    THEN LET size == getRecordingSize(pt)
             s    == BytesIOSeek(size.pt, 0, 0)
             cb   == [calls |-> 1, pos |-> s.pos, data |-> BytesIORead(s), args |-> args]
         IN  IF streamHandler = "raises"
             THEN [kind |-> "raise", val |-> <<>>, exc |-> "HandlerError", cb |-> cb]
             ELSE [kind |-> "int", val |-> <<size.ret>>, exc |-> NoExc, cb |-> cb]
    ELSE [kind |-> "bytes", val |-> BytesIOGetValue(pt), exc |-> NoExc, cb |-> NoCallback]

\* the release placed after the try instead of in a finally clause
stopFinallyOnSuccess(pt, r) == IF r.exc = NoExc THEN None ELSE pt

\* lines 109-112, the finally clause: close the stream and forget it, however
\* the try body `r` ended
stopFinally(pt, r) == None

\* stopRecording without the test of line 99: on None, getvalue/seek and
\* then close raise AttributeError
stopRecordingNoGuard(pt, streamHandler, args) ==
    IF ~isRecording(pt)
    THEN [pt |-> pt, kind |-> "raise", val |-> <<>>, exc |-> "AttributeError",
          cb |-> NoCallback]
    ELSE LET r == stopTry(pt, streamHandler, args)
         IN  [pt |-> stopFinally(pt, r), kind |-> r.kind, val |-> r.val,
              exc |-> r.exc, cb |-> r.cb]

\* lines 93-114: the stream afterwards, the returned value, the exception,
\* and what the callback was called with
stopRecording(pt, streamHandler, args) ==
    IF ~isRecording(pt)
    THEN [pt |-> pt, kind |-> "None", val |-> <<>>, exc |-> NoExc, cb |-> NoCallback]
    ELSE LET r == stopTry(pt, streamHandler, args)
         IN  [pt |-> stopFinally(pt, r), kind |-> r.kind, val |-> r.val,
              exc |-> r.exc, cb |-> r.cb]

\* The frame of a call of waitUntilReady (lines 847-858): where it is
\* ("try": about to probe, line 852; "except": in the handler, line 855,
\* with the OSError `err` caught), the tick count t taken on entry and the
\* argument timeOut.  NoFrame while no call is in progress.
Frame(pc, t, timeOut, err) == [pc |-> pc, t |-> t, timeOut |-> timeOut, err |-> err]
NoFrame == Frame("idle", 0, 0, NoExc)

----------------------------------------------------------------------------
(* The recorder and the chunked writer as a state machine *)

\* the record of the last operation; h and hargs are the streamHandler and
\* the extra arguments given to stopRecording, command and args those given
\* to _sendCommand, fail the i2c.writeto call the transport failed (NoFail
\* when none)
Outcome(op, arg, kind, val, exc) ==
    [op |-> op, arg |-> arg, kind |-> kind, val |-> val, exc |-> exc,
     h |-> "none", hargs |-> <<>>, cb |-> NoCallback,
     command |-> <<>>, args |-> <<>>, fail |-> NoFail]

Init ==
    /\ _paperTrail = None
    /\ dataDelay = 5
    /\ bus = <<>>
    /\ outcome = Outcome("init", <<>>, "None", <<>>, NoExc)
    /\ live = <<>>
    /\ script = <<>>
    /\ recorded = <<>>
    /\ _waitBuffer = <<>>
    /\ _inBuffer = <<>>
    /\ now = 0
    /\ platform = "micropython"
    /\ result = <<>>
    /\ steps = <<>>
    /\ satisfied = {}
    /\ expiredSeen = {}
    /\ nextId = 1
    /\ frame = NoFrame

StartRecording ==
    /\ _paperTrail' = startRecording(_paperTrail)
    /\ live' = IF isRecording(_paperTrail) THEN live ELSE <<>>
    /\ bus' = <<>>
    /\ outcome' = Outcome("startRecording", <<>>, "None", <<>>, NoExc)
    /\ UNCHANGED <<dataDelay, script, recorded>>
    /\ UNCHANGED corrVars

GetRecordingSize ==
    LET r == getRecordingSize(_paperTrail)
    IN  /\ _paperTrail' = r.pt
        /\ bus' = <<>>
        /\ outcome' = Outcome("getRecordingSize", <<>>, "int", <<r.ret>>, NoExc)
        /\ UNCHANGED <<dataDelay, live, script, recorded>>
        /\ UNCHANGED corrVars

Handlers == {"none", "returns", "raises"}
HandlerArgs == {<<>>, <<7>>}

\* The caller keeps what stopRecording yielded (returned, or read by its
\* callback) as `script`; `recorded` is what the transport received during
\* that session.
StopRecording(streamHandler, args) ==
    LET r == stopRecording(_paperTrail, streamHandler, args)
        yields == r.kind = "bytes" \/ r.cb.calls > 0
    IN  /\ _paperTrail' = r.pt
        /\ bus' = <<>>
        /\ outcome' = [Outcome("stopRecording", <<>>, r.kind, r.val, r.exc)
                          EXCEPT !.h = streamHandler, !.hargs = args, !.cb = r.cb]
        /\ script' = IF r.kind = "bytes" THEN r.val
                     ELSE IF r.cb.calls > 0 THEN r.cb.data
                     ELSE script
        /\ recorded' = IF yields THEN live ELSE recorded
        /\ UNCHANGED <<dataDelay, live>>
        /\ UNCHANGED corrVars

\* lines 117-119
ExecuteScript(binaryInstructions, fail) ==
    /\ isRecording(_paperTrail) =>
           Len(_paperTrail.buf) + Len(binaryInstructions) <= MaxRec
    /\ LET r == _write(Call(_paperTrail), binaryInstructions, dataDelay, fail)
       IN  /\ _paperTrail' = r.pt
           /\ bus' = r.log
           /\ outcome' = [Outcome("executeScript", binaryInstructions,
                                  IF r.exc = NoExc THEN "None" ELSE "raise",
                                  <<>>, r.exc)
                             EXCEPT !.fail = fail]
           /\ live' = IF isRecording(_paperTrail) THEN live \o Stream(r.log) ELSE live
    /\ UNCHANGED <<dataDelay, script, recorded>>
    /\ UNCHANGED corrVars

Next ==
    \/ StartRecording
    \/ GetRecordingSize
    \/ \E h \in Handlers, a \in HandlerArgs : StopRecording(h, a)
    \/ \E v \in Inputs \cup {script} : \E f \in Fails(v) : ExecuteScript(v, f)

Spec == Init /\ [][Next]_vars

----------------------------------------------------------------------------
(* The command encoder: commands with arguments from bounded sets *)

\* b'CC'
Opcodes == {<<67, 67>>}

\* b'\x01\x02', None, 'h\xe9' and the float 1.5
PlainArgs == {BytesArg(<<1, 2>>), NoneArg, StrArg(<<104, 233>>), OtherArg(<<49, 46, 53>>)}

ArgLists ==
    {<<IntArg(n)>> : n \in 0..MaxInt}
        \cup {<<a, IntArg(n)>> : a \in PlainArgs, n \in {7, 300, 2 * 255 + 90}}
        \cup {<<IntArg(n), a>> : a \in PlainArgs, n \in {7, 300, 2 * 255 + 90}}

SendCommand(command, args, fail) ==
    /\ isRecording(_paperTrail) =>
           Len(_paperTrail.buf) + Len(EncodeArgs(command, args).bytes) <= MaxSession
    /\ LET r == _sendCommand(Call(_paperTrail), command, args, dataDelay, fail)
       IN  /\ _paperTrail' = r.pt
           /\ bus' = r.log
           /\ outcome' = [Outcome("sendCommand", <<>>,
                                  IF r.exc = NoExc THEN "None" ELSE "raise",
                                  <<>>, r.exc)
                             EXCEPT !.command = command, !.args = args, !.fail = fail]
           /\ live' = IF isRecording(_paperTrail) THEN live \o Stream(r.log) ELSE live
    /\ UNCHANGED <<dataDelay, script, recorded>>
    /\ UNCHANGED corrVars

NextEncoder ==
    \E command \in Opcodes, args \in ArgLists :
        \E fail \in {NoFail, [at |-> 1, err |-> "EIO"]} :
            SendCommand(command, args, fail)

SpecEncoder == Init /\ [][NextEncoder]_vars

----------------------------------------------------------------------------
(* Commands sent while recording: a few commands, some of which fail to
   encode, and drawImage *)

\* 7; the largest int; -1; 'h\xe9' and then the largest int
SessionArgs ==
    {<<IntArg(7)>>, <<IntArg(MaxInt)>>, <<IntArg(0 - 1)>>,
     <<StrArg(<<104, 233>>), IntArg(MaxInt)>>}

\* image data of 3 and of 4 bytes, and None
ImageData == {BytesArg(<<1, 2, 3>>), BytesArg(<<1, 2, 3, 4>>), NoneArg}

\* lines 328-335, called with x = y = 0
DrawImage(mode, w, h, imageData, fail) ==
    /\ isRecording(_paperTrail) =>
           Len(_paperTrail.buf) + Len(ListText) + 20 <= MaxSession
    /\ LET r == drawImage(Call(_paperTrail), mode, 0, 0, w, h, imageData, dataDelay, fail)
       IN  /\ _paperTrail' = r.pt
           /\ bus' = r.log
           /\ outcome' = [Outcome("drawImage", <<>>,
                                  IF r.exc = NoExc THEN "None" ELSE "raise",
                                  <<>>, r.exc)
                             EXCEPT !.args = <<IntArg(mode), IntArg(w), IntArg(h), imageData>>,
                                    !.fail = fail]
           /\ live' = IF isRecording(_paperTrail) THEN live \o Stream(r.log) ELSE live
    /\ UNCHANGED <<dataDelay, script, recorded>>
    /\ UNCHANGED corrVars

NextSession ==
    \/ StartRecording
    \/ StopRecording("none", <<>>)
    \/ \E command \in Opcodes, args \in SessionArgs :
           \E fail \in {NoFail, [at |-> 1, err |-> "EIO"]} :
               SendCommand(command, args, fail)
    \/ \E mode \in {0, 1}, w \in {2, MaxInt}, imageData \in ImageData :
           \E fail \in {NoFail, [at |-> 1, err |-> "EIO"]} :
               DrawImage(mode, w, 2, imageData, fail)

SpecSession == Init /\ [][NextSession]_vars

----------------------------------------------------------------------------
(* The paced bulk transfer: files of a few sizes sent with
   _sendLargeFileSlowly, the transport failing any one of the writes, and
   executeScript in between *)

\* sizes around the segment size 64, the read size 128 and the length 256
\* that takes the second length byte
FileSizes ==
    {0, 1, 3, ChunkSize - 1, ChunkSize, ChunkSize + 1,
     FileChunk - 1, FileChunk, FileChunk + 1, FileChunk + 2,
     FileChunk + ChunkSize, FileChunk + ChunkSize + 1, 255, 256, 257, MaxFile}
Files == {File(Bytes(n)) : n \in FileSizes} \cup {NoFile}

\* the i2c.writeto calls a transfer of `file` makes when none fails
BulkWrites(file) ==
    Len(Writes(_sendLargeFileSlowly(Call(None), 0, file, NoFail).c.log))

BulkFails(file) ==
    {NoFail} \cup {[at |-> k, err |-> e] : k \in 1..BulkWrites(file), e \in WriteErrors}

\* lines 167-184
SendLargeFileSlowly(file, fail) ==
    /\ ~isRecording(_paperTrail)
    /\ LET r == _sendLargeFileSlowly(Call(_paperTrail), dataDelay, file, fail)
       IN  /\ _paperTrail' = r.c.pt
           /\ dataDelay' = r.dataDelay
           /\ bus' = r.c.log
           /\ outcome' = [Outcome("sendLargeFileSlowly", file.data,
                                  IF r.c.exc = NoExc THEN "None" ELSE "raise",
                                  <<>>, r.c.exc)
                             EXCEPT !.fail = fail]
    /\ UNCHANGED <<live, script, recorded>>
    /\ UNCHANGED corrVars

NextBulk ==
    \/ \E file \in Files : \E fail \in BulkFails(file) : SendLargeFileSlowly(file, fail)
    \/ \E v \in Inputs : \E f \in Fails(v) : ExecuteScript(v, f)

SpecBulk == Init /\ [][NextBulk]_vars

----------------------------------------------------------------------------
(* DigoleDisplay: the response correlator *)

\* A pending request: the tuple (event_code, argCount, timeStamp) of lines
\* 824-844.  `id` numbers the requests in registration order; the program
\* does not hold it, the properties use it to tell equal tuples apart.
Request(event_code, argCount, timeStamp, id) ==
    [event_code |-> event_code, argCount |-> argCount, timeStamp |-> timeStamp,
     id |-> id]

\* the read-triggering operations: name, opcode sent, event kind, arity
ReadOps ==
    { [name |-> "checkTouchScreen", opcode |-> <<82, 80, 78, 88, 89, 73>>,
       event_code |-> CLICK, argCount |-> 2],
      [name |-> "readClick", opcode |-> <<82, 80, 78, 88, 89, 67>>,
       event_code |-> CLICK, argCount |-> 2],
      [name |-> "readTouchScreen", opcode |-> <<82, 80, 78, 88, 89, 87>>,
       event_code |-> CLICK, argCount |-> 2],
      [name |-> "readAnalog", opcode |-> <<82, 68, 65, 85, 88>>,
       event_code |-> ANALOG, argCount |-> 1],
      [name |-> "readTemperature", opcode |-> <<82, 68, 84, 77, 80>>,
       event_code |-> TEMP, argCount |-> 1],
      [name |-> "readVoltage", opcode |-> <<82, 68, 66, 65, 84>>,
       event_code |-> VOLTAGE, argCount |-> 1] }

\* lines 27-29 (15-17): getDeltaTime(t2, t1 = -1), `ticks` being what
\* getTicks_ms() returns; the clock is taken not to wrap
getDeltaTime(t2, t1, ticks) == IF t1 < 0 THEN ticks - t2 ELSE t2 - t1

\* line 876
Expired(e, ticks) == getDeltaTime(e.timeStamp, -1, ticks) > TimeOut

\* int.from_bytes(raw, "big") of two bytes
FromBytesBig(raw) == raw[1] * 256 + raw[2]

\* entry of the transport log for i2c.readfrom
R(raw) == [k |-> "read", d |-> raw]

\* A number of an event's argument list, as the exact fraction n/d.
Num(n, d) == [n |-> n, d |-> d]

\* the derived reading appended after the raw value instead of inserted
\* before it
TransformAppends(event_code, args) ==
    LET raw == [i \in 1..Len(args) |-> Num(args[i], 1)]
    IN  IF event_code = ANALOG
        THEN raw \o <<Num(args[1] * 5, 2 * 4096)>>
        ELSE IF event_code = TEMP
        THEN raw \o <<Num((653 * 4096 - args[1] * 2500) * 10, 4096 * 21)>>
        ELSE raw

\* lines 894-904: the argument list of the event, from the raw values
Transform(event_code, args) ==
    LET raw == [i \in 1..Len(args) |-> Num(args[i], 1)]
    IN  IF event_code = ANALOG
        THEN <<Num(args[1] * 5, 2 * 4096)>> \o raw
        ELSE IF event_code = TEMP
        THEN <<Num((653 * 4096 - args[1] * 2500) * 10, 4096 * 21)>> \o raw
        ELSE raw

\* The state of a walk: the two queues, the number of entries the for loop
\* has taken (its iterator's index), the events so far, the clock; and the
\* record of the walk: its steps and the ids bound so far.
WalkState(wb, inb, ticks, sat) ==
    [wb |-> wb, inb |-> inb, idx |-> 0, result |-> <<>>, ticks |-> ticks,
     steps |-> <<>>, sat |-> sat]

\* One step of the record: what was done ("expire", "lag", "reject",
\* "emit") with which request, its age then, the id of the entry pop(0)
\* removed, the raw values bound, and the requests bypassed (see Bypassed).
Step(act, e, ticks, popped, vals, bypassed) ==
    [act |-> act, id |-> e.id, age |-> ticks - e.timeStamp, popped |-> popped,
     vals |-> vals, bypassed |-> bypassed,
     event_code |-> e.event_code, argCount |-> e.argCount]

\* the requests ahead of position idx in the queue that are neither expired
\* nor were ever bound to raw values
Bypassed(w, idx) ==
    {w.wb[j].id : j \in {j \in 1..(idx - 1) :
                            /\ ~Expired(w.wb[j], w.ticks)
                            /\ w.wb[j].id \notin w.sat}}

\* the click test taken at the limit: args[0] >= 1000
RejectedAtLimit(event_code, args) == event_code = CLICK /\ args[1] >= ClickLimit

\* lines 889-892: a click whose first value is above 1000 is rejected
Rejected(event_code, args) == event_code = CLICK /\ args[1] > ClickLimit

\* lines 885-906: bind argCount raw values to entry e, the entry at
\* position w.idx; emit its event unless it is a rejected click
BindEntry(w, e) ==
    LET args == SubSeq(w.inb, 1, e.argCount)
        rest == SubSeq(w.inb, e.argCount + 1, Len(w.inb))
        rejected == Rejected(e.event_code, args)
        step == Step(IF rejected THEN "reject" ELSE "emit", e, w.ticks, 0, args,
                     Bypassed(w, w.idx))
    IN  [w EXCEPT !.inb = rest,
                  !.sat = @ \cup {e.id},
                  !.steps = Append(@, step),
                  !.result = IF rejected THEN @
                             ELSE Append(@, [event_code |-> e.event_code,
                                             args |-> Transform(e.event_code, args)])]

\* the timeout branch without its `continue`: the entry is processed as well
ExpireEntryNoContinue(w, e) ==
    LET x == [w EXCEPT !.wb = Tail(@),
                       !.steps = Append(@, Step("expire", e, w.ticks, Head(w.wb).id, <<>>, {}))]
    IN  IF Len(x.inb) < e.argCount THEN x ELSE BindEntry(x, e)

\* lines 877-878: self._waitBuffer.pop(0); continue
ExpireEntry(w, e) ==
    [w EXCEPT !.wb = Tail(@),
              !.steps = Append(@, Step("expire", e, w.ticks, Head(w.wb).id, <<>>, {}))]

RECURSIVE WalkSkipsLagging(_)
\* the walk passing over a lagging entry (continue) instead of stopping
WalkSkipsLagging(w) ==
    IF w.idx >= Len(w.wb) THEN w
    ELSE LET e == w.wb[w.idx + 1]
             x == [w EXCEPT !.idx = @ + 1]
         IN  IF Expired(e, w.ticks) THEN WalkSkipsLagging(ExpireEntry(x, e))
             ELSE IF Len(w.inb) < e.argCount
             THEN WalkSkipsLagging(
                      [x EXCEPT !.steps = Append(@, Step("lag", e, w.ticks, 0, <<>>, {}))])
             ELSE WalkSkipsLagging(BindEntry(x, e))

RECURSIVE Walk(_)
\* lines 875-906: the for loop over self._waitBuffer.  The list iterator
\* takes the entry at its index and advances, whatever the loop body did
\* to the list.
Walk(w) ==
    IF w.idx >= Len(w.wb) THEN w
    ELSE LET e == w.wb[w.idx + 1]
             x == [w EXCEPT !.idx = @ + 1]
         IN  IF Expired(e, w.ticks) THEN Walk(ExpireEntry(x, e))
             ELSE IF Len(w.inb) < e.argCount
             THEN [x EXCEPT !.steps = Append(@, Step("lag", e, w.ticks, 0, <<>>, {}))]
             ELSE Walk(BindEntry(x, e))

\* lines 67-72: _readInt, given what i2c.readfrom does (`read.exc` the
\* OSError it raises, else `read.raw` the two bytes).  On CPython the module
\* time has no sleep_ms: line 71 raises AttributeError.
_readInt(read, impl) ==
    IF read.exc # NoExc THEN [exc |-> read.exc, ii |-> <<>>]
    ELSE IF impl = "cpython" THEN [exc |-> "AttributeError", ii |-> <<>>]
    ELSE [exc |-> NoExc, ii |-> <<FromBytesBig(read.raw)>>]

RECURSIVE DrainRaisesTimeout(_, _, _, _)
\* the drain without the test of line 871: ETIMEDOUT leaves doCheck too
DrainRaisesTimeout(d, n, reads, impl) ==
    IF n = 0 \/ reads = <<>> THEN d
    ELSE LET r == _readInt(Head(reads), impl)
             log == Append(d.log, R(IF Head(reads).exc = NoExc THEN Head(reads).raw ELSE <<>>))
         IN  IF r.exc # NoExc THEN [d EXCEPT !.log = log, !.exc = r.exc]
             ELSE DrainRaisesTimeout([d EXCEPT !.log = log, !.inb = @ \o r.ii],
                                     n - 1, Tail(reads), impl)

RECURSIVE DrainUntilTimeout(_, _, _, _)
\* the drain that does not count the pending requests: it reads for as long
\* as the transport answers
DrainUntilTimeout(d, n, reads, impl) ==
    IF reads = <<>> THEN d
    ELSE LET r == _readInt(Head(reads), impl)
             log == Append(d.log, R(IF Head(reads).exc = NoExc THEN Head(reads).raw ELSE <<>>))
         IN  IF r.exc = "ETIMEDOUT" THEN [d EXCEPT !.log = log]
             ELSE IF r.exc # NoExc THEN [d EXCEPT !.log = log, !.exc = r.exc]
             ELSE DrainUntilTimeout([d EXCEPT !.log = log, !.inb = @ \o r.ii],
                                    n, Tail(reads), impl)

RECURSIVE Drain(_, _, _, _)
\* lines 865-872: one _readInt per pending request; `reads` is what the
\* transport answers to the successive i2c.readfrom calls.  ETIMEDOUT ends
\* the loop, any other exception leaves doCheck.
Drain(d, n, reads, impl) ==
    IF n = 0 \/ reads = <<>> THEN d
    ELSE LET r == _readInt(Head(reads), impl)
             log == Append(d.log, R(IF Head(reads).exc = NoExc THEN Head(reads).raw ELSE <<>>))
         IN  IF r.exc = "ETIMEDOUT" THEN [d EXCEPT !.log = log]
             ELSE IF r.exc # NoExc THEN [d EXCEPT !.log = log, !.exc = r.exc]
             ELSE Drain([d EXCEPT !.log = log, !.inb = @ \o r.ii], n - 1, Tail(reads), impl)

\* doCheck without lines 908-910
doCheckNoReset(wb, inb, reads, ticks, impl, sat) ==
    LET d == Drain([inb |-> inb, log |-> <<>>, exc |-> NoExc], Len(wb), reads, impl)
    IN  IF d.exc # NoExc
        THEN [wb |-> wb, inb |-> d.inb, result |-> <<>>, exc |-> d.exc, log |-> d.log,
              drained |-> d.inb, steps |-> <<>>, sat |-> sat]
        ELSE LET w == Walk(WalkState(wb, d.inb, ticks, sat))
             IN  [wb |-> w.wb, inb |-> w.inb,
                  result |-> w.result, exc |-> NoExc, log |-> d.log,
                  drained |-> d.inb, steps |-> w.steps, sat |-> w.sat]

\* doCheck losing the values of a drain that ends with an exception
doCheckForgetsReads(wb, inb, reads, ticks, impl, sat) ==
    LET d == Drain([inb |-> inb, log |-> <<>>, exc |-> NoExc], Len(wb), reads, impl)
    IN  IF d.exc # NoExc
        THEN [wb |-> wb, inb |-> inb, result |-> <<>>, exc |-> d.exc, log |-> d.log,
              drained |-> d.inb, steps |-> <<>>, sat |-> sat]
        ELSE LET w == Walk(WalkState(wb, d.inb, ticks, sat))
             IN  [wb |-> w.wb,
                  inb |-> IF w.wb = <<>> THEN <<>> ELSE w.inb,
                  result |-> w.result, exc |-> NoExc, log |-> d.log,
                  drained |-> d.inb, steps |-> w.steps, sat |-> w.sat]

\* lines 861-912: the queues afterwards, the returned list and the exception;
\* with them the transport log, the raw queue as the walk found it
\* (`drained`), the steps of the walk and the ids bound so far
doCheck(wb, inb, reads, ticks, impl, sat) ==
    LET d == Drain([inb |-> inb, log |-> <<>>, exc |-> NoExc], Len(wb), reads, impl)
    IN  IF d.exc # NoExc
        THEN [wb |-> wb, inb |-> d.inb, result |-> <<>>, exc |-> d.exc, log |-> d.log,
              drained |-> d.inb, steps |-> <<>>, sat |-> sat]
        ELSE LET w == Walk(WalkState(wb, d.inb, ticks, sat))
             IN  [wb |-> w.wb,
                  inb |-> IF w.wb = <<>> THEN <<>> ELSE w.inb,
                  result |-> w.result, exc |-> NoExc, log |-> d.log,
                  drained |-> d.inb, steps |-> w.steps, sat |-> w.sat]

----------------------------------------------------------------------------
(* The correlator as a state machine *)

\* what the device can answer to a two-byte read: 1000 and 4096
RawReplies == {<<3, 232>>, <<16, 0>>}
Platforms == {"micropython", "cpython"}
\* the clock advances between operations in steps of
Ticks == {1000}

InitCorrelator ==
    /\ _paperTrail = None
    /\ dataDelay = 5
    /\ bus = <<>>
    /\ outcome = Outcome("init", <<>>, "None", <<>>, NoExc)
    /\ live = <<>>
    /\ script = <<>>
    /\ recorded = <<>>
    /\ _waitBuffer = <<>>
    /\ _inBuffer = <<>>
    /\ now = 0
    /\ platform \in Platforms
    /\ result = <<>>
    /\ steps = <<>>
    /\ satisfied = {}
    /\ expiredSeen = {}
    /\ nextId = 1
    /\ frame = NoFrame

\* Time passes between two operations; the records of the last operation
\* are cleared.
Tick(dt) ==
    /\ now + dt <= MaxTime
    /\ now' = now + dt
    /\ bus' = <<>>
    /\ outcome' = Outcome("tick", <<>>, "None", <<>>, NoExc)
    /\ result' = <<>>
    /\ steps' = <<>>
    /\ UNCHANGED <<_paperTrail, dataDelay, live, script, recorded,
                   _waitBuffer, _inBuffer, platform, satisfied, expiredSeen, nextId,
                   frame>>

\* the request appended whether or not the opcode went out
EnqueueAlways(wb, op, ticks, id, exc) ==
    Append(wb, Request(op.event_code, op.argCount, ticks, id))

\* lines 824, 828, 832, 836, 840, 844: the append after super()'s call,
\* not reached when that call raised
Enqueue(wb, op, ticks, id, exc) ==
    IF exc = NoExc THEN Append(wb, Request(op.event_code, op.argCount, ticks, id))
    ELSE wb

\* lines 822-844: send the opcode (lines 569-618), then append the request
Register(op, fail) ==
    /\ nextId <= MaxRequests
    /\ LET r == _sendCommand(Call(_paperTrail), op.opcode, <<>>, dataDelay, fail)
       IN  /\ _paperTrail' = r.pt
           /\ bus' = r.log
           /\ outcome' = [Outcome(op.name, <<>>,
                                  IF r.exc = NoExc THEN "None" ELSE "raise",
                                  <<>>, r.exc)
                             EXCEPT !.command = op.opcode, !.fail = fail]
           /\ live' = IF isRecording(_paperTrail) THEN live \o Stream(r.log) ELSE live
           /\ _waitBuffer' = Enqueue(_waitBuffer, op, now, nextId, r.exc)
           /\ nextId' = IF r.exc = NoExc THEN nextId + 1 ELSE nextId
    /\ result' = <<>>
    /\ steps' = <<>>
    /\ UNCHANGED <<dataDelay, script, recorded, _inBuffer, now, platform,
                   satisfied, expiredSeen, frame>>

\* the i2c.readfrom call that failed in a poll with the transport log `log`
\* (its last call, when that delivered nothing), and the error it raised
FailedRead(log, reads) ==
    IF log # <<>> /\ log[Len(log)].d = <<>>
    THEN [at |-> Len(log), err |-> reads[Len(log)].exc]
    ELSE NoFail

\* what the transport would answer to one more i2c.readfrom than the
\* answers chosen for a poll, should the poll make it
Spare == <<[exc |-> NoExc, raw |-> <<3, 232>>]>>

\* lines 861-912.  outcome.arg is the raw queue as the walk found it.
DoCheck(reads) ==
    \E r \in {doCheck(_waitBuffer, _inBuffer, reads \o Spare, now, platform,
                      satisfied)} :
        /\ bus' = r.log
        /\ _waitBuffer' = r.wb
        /\ _inBuffer' = r.inb
        /\ outcome' = [Outcome("doCheck", r.drained,
                               IF r.exc = NoExc THEN "list" ELSE "raise", <<>>, r.exc)
                          EXCEPT !.fail = FailedRead(r.log, reads)]
        /\ result' = r.result
        /\ steps' = r.steps
        /\ satisfied' = r.sat
        /\ expiredSeen' = expiredSeen \cup
               {r.steps[i].id : i \in {i \in 1..Len(r.steps) : r.steps[i].act = "expire"}}
        /\ UNCHANGED <<_paperTrail, dataDelay, live, script, recorded,
                       now, platform, nextId, frame>>

\* up to n successful reads, the raw queue not growing beyond MaxRaw
OkReads(n) ==
    UNION {[1..k -> {[exc |-> NoExc, raw |-> x] : x \in RawReplies}] :
             k \in 0..Min(n, MaxRaw - Len(_inBuffer))}

\* the answers of the transport to the reads of one poll of n requests: n
\* values, or fewer values and then an error
ReadSeqs(n) ==
    {rs \in OkReads(n) : Len(rs) = n}
        \cup {Append(rs, [exc |-> "ETIMEDOUT", raw |-> <<>>]) :
                 rs \in {rs \in OkReads(n) : Len(rs) < n}}
        \cup {Append(rs, [exc |-> "EIO", raw |-> <<>>]) :
                 rs \in {rs \in OkReads(n) : Len(rs) < n}}

\* The first request of a run is issued by any of the read operations, the
\* later ones by readClick or readVoltage (one operation of each arity).
OpsFor(id) ==
    IF id = 1 THEN ReadOps
    ELSE {op \in ReadOps : op.name \in {"readClick", "readVoltage"}}

NextCorrelator ==
    \/ \E dt \in Ticks : Tick(dt)
    \/ \E op \in OpsFor(nextId) : \E fail \in {NoFail, [at |-> 1, err |-> "EIO"]} :
           Register(op, fail)
    \/ \E reads \in ReadSeqs(Len(_waitBuffer)) : DoCheck(reads)

SpecCorrelator == InitCorrelator /\ [][NextCorrelator]_vars

----------------------------------------------------------------------------
(* The correlator polled for ever: the clock keeps advancing up to MaxTime,
   polls keep being made and none of their reads fails with a bus error
   other than ETIMEDOUT.  Requests are registered early enough for the clock
   to outlast their 2000 ms. *)

\* the answers of the transport to a poll none of whose reads fails fatally
NonFatalReads(n) == {rs \in ReadSeqs(n) : \A i \in 1..Len(rs) : rs[i].exc # "EIO"}

Poll == \E reads \in NonFatalReads(Len(_waitBuffer)) : DoCheck(reads)

Advance == \E dt \in Ticks : Tick(dt)

RegisterEarly(op) ==
    /\ \E dt \in Ticks : now + TimeOut + dt <= MaxTime
    /\ Register(op, NoFail)

NextLive ==
    \/ Advance
    \/ \E op \in OpsFor(nextId) : RegisterEarly(op)
    \/ Poll

SpecLive ==
    InitCorrelator /\ [][NextLive]_vars /\ WF_vars(Advance) /\ WF_vars(Poll)

----------------------------------------------------------------------------
(* DigoleDisplay.waitUntilReady: the loop of lines 849-858, one step per
   probe and one per pass through the exception handler, with the clock
   advancing in between.  The transport answers each probe as it likes:
   it accepts the byte, or raises an OSError whose text holds ENODEV, or
   another OSError.  A call with a positive timeout is made early enough
   for the clock to outlast it. *)

\* the values passed as timeOut; -1 is the default of the parameter
TimeOuts == {-1, 0, 1000}

\* the OSErrors of a probe, by their text
ProbeErrors == {"ENODEV", "EIO"}

ProbeFails == {NoFail} \cup {[at |-> 1, err |-> e] : e \in ProbeErrors}

\* line 852: self._write(b'\00')
waitProbe(c, delay, fail) == _write(c, <<0>>, delay, fail)

\* the handler that retries after every OSError until the timeout
waitExceptRetriesAll(f, ticks) ==
    IF f.timeOut > 0 /\ getDeltaTime(f.t, -1, ticks) > f.timeOut
    THEN [raise |-> TRUE, exc |-> "ETIMEOUT"]
    ELSE [raise |-> FALSE, exc |-> NoExc]

\* lines 854-858: the handler of the OSError f.err caught at tick count ticks
waitExcept(f, ticks) ==
    IF f.err # "ENODEV"
    THEN [raise |-> TRUE, exc |-> f.err]
    ELSE IF f.timeOut > 0 /\ getDeltaTime(f.t, -1, ticks) > f.timeOut
         THEN [raise |-> TRUE, exc |-> "ETIMEOUT"]
         ELSE [raise |-> FALSE, exc |-> NoExc]

Returned(exc) == Outcome("waitUntilReady", <<>>, "None", <<>>, exc)
Waiting == Outcome("waitUntilReady", <<>>, "waiting", <<>>, NoExc)

waitVars == <<dataDelay, live, script, recorded, _waitBuffer, _inBuffer,
              platform, result, steps, satisfied, expiredSeen, nextId>>

\* lines 847-848: the call, t = getTicks_ms()
WaitUntilReady(timeOut) ==
    /\ frame.pc = "idle"
    /\ \E dt \in Ticks : now + (IF timeOut > 0 THEN timeOut ELSE 0) + dt <= MaxTime
    /\ frame' = Frame("try", now, timeOut, NoExc)
    /\ bus' = <<>>
    /\ outcome' = Waiting
    /\ UNCHANGED <<_paperTrail, now, waitVars>>

\* lines 850-853: one probe; break on success, else into the handler
ProbeStep(fail) ==
    /\ frame.pc = "try"
    /\ \E r \in {waitProbe(Call(_paperTrail), dataDelay, fail)} :
        /\ bus' = r.log
        /\ _paperTrail' = r.pt
        /\ IF r.exc = NoExc
           THEN frame' = NoFrame /\ outcome' = Returned(NoExc)
           ELSE /\ frame' = [frame EXCEPT !.pc = "except", !.err = r.exc]
                /\ outcome' = Waiting
    /\ UNCHANGED <<now, waitVars>>

Probe == \E fail \in ProbeFails : ProbeStep(fail)

\* lines 854-858: the handler; raise, or back to the top of the loop
Handle ==
    /\ frame.pc = "except"
    /\ \E r \in {waitExcept(frame, now)} :
        IF r.raise
        THEN frame' = NoFrame /\ outcome' = Returned(r.exc)
        ELSE /\ frame' = [frame EXCEPT !.pc = "try", !.err = NoExc]
             /\ outcome' = Waiting
    /\ bus' = <<>>
    /\ UNCHANGED <<_paperTrail, now, waitVars>>

NextWait ==
    \/ Advance
    \/ \E timeOut \in TimeOuts : WaitUntilReady(timeOut)
    \/ Probe
    \/ Handle

SpecWait ==
    InitCorrelator /\ [][NextWait]_vars
    /\ WF_vars(Advance) /\ WF_vars(Probe) /\ WF_vars(Handle)

----------------------------------------------------------------------------
(* Properties of the chunked writer and the recorder, checked under Spec *)

\* the program state of the recorder together with the session records
recorderState == <<recVars, _waitBuffer, _inBuffer>>

\* C3: when no transport write fails, the segments _write delivers to the
\* transport, concatenated in delivery order, equal the sequence passed in.
C3_WriteDeliversExactly ==
    (outcome.op = "executeScript" /\ outcome.exc = NoExc)
        => Stream(bus) = outcome.arg

\* a sequence longer than 2 * 64 bytes was delivered in three segments
C3_Witness ==
    /\ outcome.op = "executeScript" /\ outcome.exc = NoExc
    /\ Len(outcome.arg) > 2 * ChunkSize
    /\ Len(Writes(bus)) = 3

\* C5: what stopRecording yields is the concatenation of the segments the
\* transport received during the session, and replaying it with
\* executeScript (no write failing) delivers that same byte stream.
C5_RecordingRoundTrip ==
    /\ (outcome.op = "stopRecording" /\ outcome.kind = "bytes")
           => outcome.val = live
    /\ (outcome.op = "stopRecording" /\ outcome.cb.calls > 0)
           => outcome.cb.data = live
    /\ (outcome.op = "executeScript" /\ outcome.arg = script /\ outcome.exc = NoExc)
           => Stream(bus) = recorded

\* a session of several writes, one of them chunked, was replayed
C5_Witness ==
    /\ outcome.op = "executeScript" /\ outcome.arg = script /\ outcome.exc = NoExc
    /\ script \notin Inputs
    /\ Len(script) > ChunkSize
    /\ Stream(bus) = recorded

\* C6: startRecording while a session is active changes neither the
\* recorder state nor the captured buffer.
C6_StartIdempotent ==
    [][(outcome'.op = "startRecording" /\ isRecording(_paperTrail))
           => UNCHANGED recorderState]_vars

\* startRecording was called with bytes already captured, and they are kept
C6_Witness ==
    /\ outcome.op = "startRecording"
    /\ isRecording(_paperTrail)
    /\ Len(_paperTrail.buf) > ChunkSize

\* C7: getRecordingSize returns 0 when idle and the number of bytes captured
\* in the session otherwise, and changes no state (the stream position
\* included).
C7_SizeIsPure ==
    [][outcome'.op = "getRecordingSize"
           => /\ UNCHANGED recorderState
              /\ outcome'.exc = NoExc
              /\ outcome'.val = <<IF isRecording(_paperTrail) THEN Len(live) ELSE 0>>]_vars

\* the size of a session holding more than one segment was asked for
C7_Witness ==
    /\ outcome.op = "getRecordingSize"
    /\ isRecording(_paperTrail)
    /\ outcome.val = <<Len(_paperTrail.buf)>>
    /\ Len(_paperTrail.buf) > ChunkSize

\* C8: stopRecording while recording leaves the recorder idle on every exit
\* path; a raising callback's exception reaches the caller.
C8_StopAlwaysReleases ==
    [][(outcome'.op = "stopRecording" /\ isRecording(_paperTrail))
           => /\ _paperTrail' = None
              /\ outcome'.exc = (IF outcome'.h = "raises" THEN "HandlerError" ELSE NoExc)]_vars

\* the callback raised, and the recorder is idle
C8_Witness ==
    /\ outcome.op = "stopRecording"
    /\ outcome.h = "raises" /\ outcome.exc = "HandlerError"
    /\ outcome.cb.calls = 1
    /\ _paperTrail = None

\* C9: stopRecording while recording returns the captured bytes when no
\* callback is given; a callback is invoked once, at offset 0, with the
\* extra arguments, and the caller gets the size captured before it ran.
C9_StopResult ==
    [][(outcome'.op = "stopRecording" /\ isRecording(_paperTrail))
           => IF outcome'.h = "none"
              THEN /\ outcome'.kind = "bytes"
                   /\ outcome'.val = _paperTrail.buf
                   /\ outcome'.cb.calls = 0
              ELSE /\ outcome'.cb.calls = 1
                   /\ outcome'.cb.pos = 0
                   /\ outcome'.cb.data = _paperTrail.buf
                   /\ outcome'.cb.args = outcome'.hargs
                   /\ outcome'.h = "returns"
                          => /\ outcome'.kind = "int"
                             /\ outcome'.val = <<Len(_paperTrail.buf)>>]_vars

\* a callback with an extra argument received a non-empty session
C9_Witness ==
    /\ outcome.op = "stopRecording"
    /\ outcome.h = "returns" /\ outcome.hargs # <<>>
    /\ outcome.kind = "int" /\ outcome.val # <<0>>
    /\ outcome.cb.calls = 1

\* C10: stopRecording while idle returns None without raising, does not
\* call the callback and changes no state.
C10_StopWhileIdle ==
    [][(outcome'.op = "stopRecording" /\ ~isRecording(_paperTrail))
           => /\ outcome'.kind = "None"
              /\ outcome'.exc = NoExc
              /\ outcome'.cb.calls = 0
              /\ bus' = <<>>
              /\ UNCHANGED recorderState]_vars

\* stopRecording was given a callback while idle
C10_Witness ==
    /\ outcome.op = "stopRecording"
    /\ outcome.h # "none"
    /\ outcome.kind = "None"
    /\ outcome.cb.calls = 0

\* ceil(n / 64)
CeilChunks(n) == (n + ChunkSize - 1) \div ChunkSize

\* C14: no write delivered to the transport is longer than 64 bytes; a
\* sequence of at most 64 bytes is delivered as one write, a longer one of
\* length L as ceil(L/64) writes, all but possibly the last of 64 bytes.
C14_SegmentSizes ==
    outcome.op = "executeScript"
        => /\ \A j \in 1..Len(Writes(bus)) : Len(Writes(bus)[j]) <= ChunkSize
           /\ outcome.exc = NoExc
                  => LET L == Len(outcome.arg)
                         ws == Writes(bus)
                     IN  IF L <= ChunkSize THEN Len(ws) = 1
                         ELSE /\ Len(ws) = CeilChunks(L)
                              /\ \A j \in 1..(Len(ws) - 1) : Len(ws[j]) = ChunkSize

\* a recorded session of 64 + 65 bytes was replayed as writes of 64, 64 and
\* 1 bytes
C14_Witness ==
    /\ outcome.op = "executeScript" /\ outcome.exc = NoExc
    /\ Len(outcome.arg) = 2 * ChunkSize + 1
    /\ Len(Writes(bus)) = 3
    /\ Len(Writes(bus)[3]) = 1

\* the first n segments of v as _write cuts it
Segments(v, n) == [j \in 1..n |-> Chunk(v, (j - 1) * ChunkSize)]

\* C12: when the transport fails the k-th write of a sequence, _write raises
\* that same error, and the transport has received exactly the k-1 segments
\* before it: nothing is written again, nothing after it is written.
C12_WriteFailurePropagates ==
    (outcome.op = "executeScript" /\ outcome.fail.at > 0)
        => /\ outcome.exc = outcome.fail.err
           /\ Writes(bus) = Segments(outcome.arg, outcome.fail.at - 1)

\* the second of three writes failed, after one segment of 64 bytes
C12_Witness ==
    /\ outcome.op = "executeScript" /\ outcome.fail.at = 2
    /\ outcome.exc = "EIO"
    /\ Len(outcome.arg) > 2 * ChunkSize
    /\ Writes(bus) = <<Chunk(outcome.arg, 0)>>

\* C24: while recording, one call of _write appends the sequence passed to
\* it to the recording buffer as one unit: the buffer grows by the whole
\* sequence or not at all, never by a proper prefix of it.
C24_RecordsWholeSequence ==
    [][(outcome'.op = "executeScript" /\ isRecording(_paperTrail))
           => \/ _paperTrail'.buf = _paperTrail.buf
              \/ _paperTrail'.buf = _paperTrail.buf \o outcome'.arg]_vars

----------------------------------------------------------------------------
(* Properties of the command encoder, checked under SpecEncoder *)

\* floor(n/255) extension bytes 0xFF, then the byte n mod 255
ExtensionEncoding(n) == [i \in 1..(n \div 255) |-> 255] \o <<n % 255>>

\* the last operation sent a command with the single int argument n
SentInt(n) ==
    /\ outcome.op = "sendCommand"
    /\ Len(outcome.args) = 1
    /\ outcome.args[1] = IntArg(n)

\* the int n was encoded and sent as the extension-byte scheme says
EncodedByScheme(n) ==
    /\ outcome.exc # "OverflowError"
    /\ outcome.exc = NoExc => Stream(bus) = outcome.command \o ExtensionEncoding(n)

StatedEncoding(arg) ==
    IF arg.t = "bytes" THEN arg.v
    ELSE IF arg.t = "None" THEN <<>>
    ELSE IF arg.t = "int" THEN ExtensionEncoding(arg.v[1])
    ELSE Utf8(arg.v) \o <<0>>

\* every int among the arguments is in 0..509
IntsInRange(args) ==
    \A i \in 1..Len(args) : args[i].t = "int" => args[i].v[1] \in 0..(2 * 255 - 1)

\* C13: a command that is sent reaches _write as one byte sequence: the
\* opcode followed by what each argument contributes, in argument order.
C13_CommandBytes ==
    (outcome.op = "sendCommand" /\ outcome.exc = NoExc /\ IntsInRange(outcome.args))
        => Writes(bus) =
               <<outcome.command
                    \o Flatten([i \in 1..Len(outcome.args) |-> StatedEncoding(outcome.args[i])])>>

\* CC with the arguments 'h\xe9' and 7 went out as 43 43 68 C3 A9 00 07
C13_Witness ==
    /\ outcome.op = "sendCommand" /\ outcome.exc = NoExc
    /\ outcome.args = <<StrArg(<<104, 233>>), IntArg(7)>>
    /\ Writes(bus) = <<(<<67, 67, 104, 195, 169, 0, 7>>)>>

----------------------------------------------------------------------------
(* Properties of commands sent while recording, checked under SpecSession *)

\* the exceptions raised while a command is put together
EncodingErrors == {"OverflowError", "AssertionError"}

\* C16: a command that fails to encode (an int out of range, or the image
\* size check of drawImage) raises before any byte is written: the
\* transport receives nothing and the recording is unchanged.
C16_EncodingFailureSendsNothing ==
    [][(outcome'.op \in {"sendCommand", "drawImage"} /\ outcome'.exc \in EncodingErrors)
           => /\ bus' = <<>>
              /\ _paperTrail' = _paperTrail
              /\ live' = live]_vars

\* while a command was on record, a command whose first argument encodes
\* and whose second does not raised OverflowError
C16_Witness ==
    /\ outcome.op = "sendCommand" /\ outcome.exc = "OverflowError"
    /\ Len(outcome.args) = 2
    /\ isRecording(_paperTrail) /\ _paperTrail.buf # <<>>
    /\ bus = <<>>

----------------------------------------------------------------------------
(* Properties of the paced bulk transfer, checked under SpecBulk *)

\* C25: a transfer that returns has delivered, in this order, the two-byte
\* big-endian length S, the 200 ms settle delay, the S payload bytes
\* unchanged, exactly one terminator byte, and the 40 ms settle delay.
C25_BulkTransferFraming ==
    (outcome.op = "sendLargeFileSlowly" /\ outcome.exc = NoExc)
        => LET ws == Writes(bus)
               size == Len(outcome.arg)
           IN  /\ Len(ws) >= 2
               /\ ws[1] = <<size \div 256, size % 256>>
               /\ bus[1] = W(ws[1]) /\ bus[2] = S(SettleDelay)
               /\ Flatten(SubSeq(ws, 2, Len(ws) - 1)) = outcome.arg
               /\ Len(ws[Len(ws)]) = 1
               /\ bus[Len(bus) - 1] = W(ws[Len(ws)])
               /\ bus[Len(bus)] = S(SlowDelay)

\* C26: when _sendLargeFileSlowly has ended, by returning or by raising,
\* dataDelay is what it was before the transfer.
C26_DelayRestored ==
    [][outcome'.op = "sendLargeFileSlowly" => dataDelay' = dataDelay]_vars

----------------------------------------------------------------------------
(* Properties of the response correlator, checked under SpecCorrelator *)

\* the steps of the last walk that bound raw values to a request
BindSteps == {i \in 1..Len(steps) : steps[i].act \in {"emit", "reject"}}
EmitSteps == {i \in 1..Len(steps) : steps[i].act = "emit"}

RECURSIVE BoundVals(_)
\* the raw values the steps bound, in the order of the steps
BoundVals(ss) == IF ss = <<>> THEN <<>> ELSE Head(ss).vals \o BoundVals(Tail(ss))

\* C1: raw values are bound in FIFO order: never to a request while an
\* older, unexpired, not yet satisfied request is pending, and the values
\* bound are the oldest of the raw queue in arrival order.
C1_FifoBinding ==
    outcome.op = "doCheck"
        => /\ \A i \in BindSteps : steps[i].bypassed = {}
           /\ BoundVals(steps) = SubSeq(outcome.arg, 1, Len(BoundVals(steps)))

\* C2: a request a walk examined at an age above 2000 ms is in the output
\* of no poll from then on; at an age of 2000 ms or less it is not treated
\* as expired.
C2_ExpiredNeverEmitted ==
    outcome.op = "doCheck"
        => /\ \A i \in EmitSteps : steps[i].id \notin expiredSeen
           /\ Len(result) = Cardinality(EmitSteps)
           /\ \A i \in 1..Len(steps) : (steps[i].act = "expire") = (steps[i].age > TimeOut)

\* a request a walk found expired is still queued after the poll (pop(0)
\* removed another entry), with enough raw values queued to satisfy it
C2_Witness ==
    /\ outcome.op = "doCheck"
    /\ \E j \in 1..Len(_waitBuffer) :
           /\ _waitBuffer[j].id \in expiredSeen
           /\ Len(_inBuffer) >= _waitBuffer[j].argCount

\* the raw values the steps before step i bound, and the raw queue as step i
\* found it
BoundBefore(i) == BoundVals(SubSeq(steps, 1, i - 1))
QueueAt(i) == SubSeq(outcome.arg, Len(BoundBefore(i)) + 1, Len(outcome.arg))

RECURSIVE Emitted(_)
\* the steps that emitted an event, in order
Emitted(ss) ==
    IF ss = <<>> THEN <<>>
    ELSE IF Head(ss).act = "emit" THEN <<Head(ss)>> \o Emitted(Tail(ss))
    ELSE Emitted(Tail(ss))

\* the raw queue a poll that returned leaves behind: what the walk did not
\* bind, or nothing when the pending queue ended empty
LeftAfterWalk ==
    IF _waitBuffer = <<>> THEN <<>>
    ELSE SubSeq(outcome.arg, Len(BoundVals(steps)) + 1, Len(outcome.arg))

\* C11: a click request whose first bound raw value is above 1000 yields no
\* event, yet its two raw values leave the raw queue; with a first value of
\* 1000 or less its event is emitted.
C11_ClickRejection ==
    (outcome.op = "doCheck" /\ outcome.exc = NoExc)
        => /\ \A i \in BindSteps :
                  steps[i].event_code = CLICK
                      => /\ Len(steps[i].vals) = 2
                         /\ steps[i].vals = SubSeq(QueueAt(i), 1, 2)
                         /\ (steps[i].act = "reject") = (steps[i].vals[1] > ClickLimit)
                         /\ (steps[i].act = "emit") = (steps[i].vals[1] <= ClickLimit)
           /\ \A i \in BindSteps : steps[i].act = "reject" => steps[i].event_code = CLICK
           /\ Len(result) = Len(Emitted(steps))
           /\ \A k \in 1..Len(result) : result[k].event_code = Emitted(steps)[k].event_code
           /\ _inBuffer = LeftAfterWalk

\* a poll rejected a click that was bound (4096, 1000) and gave the next raw
\* value to the voltage request behind it, whose event is the only one
C11_Witness ==
    /\ outcome.op = "doCheck" /\ outcome.exc = NoExc
    /\ outcome.arg = <<4096, 1000, 1000>>
    /\ \E i \in BindSteps : steps[i].act = "reject" /\ steps[i].vals = <<4096, 1000>>
    /\ Len(result) = 1 /\ result[1].event_code = VOLTAGE

\* the fractions a and b are the same number
SameNumber(a, b) == a.n * b.d = b.n * a.d

\* the argument list stated for an event of kind event_code bound to vals:
\* raw*2.5/4096 = raw*5/(2*4096), and (653 - raw*2500/4096)/2.1 =
\* (653*4096 - raw*2500)*10/(4096*21)
StatedArgs(event_code, vals) ==
    IF event_code = VOLTAGE THEN <<Num(vals[1], 1)>>
    ELSE IF event_code = ANALOG
    THEN <<Num(vals[1] * 5, 2 * 4096), Num(vals[1], 1)>>
    ELSE IF event_code = TEMP
    THEN <<Num((653 * 4096 - vals[1] * 2500) * 10, 4096 * 21), Num(vals[1], 1)>>
    ELSE <<Num(vals[1], 1), Num(vals[2], 1)>>

\* C15: the k-th event a poll returns has the kind of the k-th request the
\* walk emitted and the argument list stated for that kind, computed from
\* the raw values bound to it; the analog reading of raw 4096 is 2.5 = 5/2.
C15_EventArguments ==
    (outcome.op = "doCheck" /\ outcome.exc = NoExc)
        => /\ Len(result) = Len(Emitted(steps))
           /\ \A k \in 1..Len(result) :
                  LET st == Emitted(steps)[k]
                  IN  /\ result[k].event_code = st.event_code
                      /\ Len(st.vals) = st.argCount
                      /\ result[k].args = StatedArgs(st.event_code, st.vals)
                      /\ (st.event_code = ANALOG /\ st.vals = <<4096>>)
                             => SameNumber(result[k].args[1], Num(5, 2))

\* a poll returned the analog event of raw 4096, its reading 2.5 first
C15_Witness ==
    /\ outcome.op = "doCheck" /\ outcome.exc = NoExc
    /\ Len(result) >= 2
    /\ result[1].event_code = ANALOG
    /\ Len(result[1].args) = 2
    /\ SameNumber(result[1].args[1], Num(5, 2))
    /\ result[1].args[2] = Num(4096, 1)
    /\ result[2].event_code = CLICK

\* the ids of the requests pending
PendingIds == {_waitBuffer[j].id : j \in 1..Len(_waitBuffer)}

\* C17: a request a poll binds raw values to (its event emitted, or its
\* click rejected) is no longer pending when that poll returns.
C17_BoundRequestRemoved ==
    (outcome.op = "doCheck" /\ outcome.exc = NoExc)
        => \A i \in BindSteps : steps[i].id \notin PendingIds

\* the timeout branch removes only expired requests: the request removed
\* is the one found expired or one registered before it
OnlyExpiredDiscarded ==
    \A i \in 1..Len(steps) :
        steps[i].act = "expire" => steps[i].popped <= steps[i].id

\* C18: when a poll returns, no pending request is older than 2000 ms, and
\* every request the timeout branch removed was older than that.
C18_NoExpiredAfterPoll ==
    (outcome.op = "doCheck" /\ outcome.exc = NoExc)
        => /\ \A j \in 1..Len(_waitBuffer) : ~Expired(_waitBuffer[j], now)
           /\ OnlyExpiredDiscarded

\* the steps of the last walk that found their request lagging
LagSteps == {i \in 1..Len(steps) : steps[i].act = "lag"}

\* C19: a walk stops at the first unexpired request the raw queue cannot
\* satisfy: that step is the walk's last, every request bound in the poll
\* was issued before it, and the raw values it found stay queued.
C19_WalkStopsAtLag ==
    (outcome.op = "doCheck" /\ outcome.exc = NoExc)
        => \A i \in 1..Len(steps) :
               /\ (steps[i].act = "lag")
                      = (steps[i].age <= TimeOut /\ Len(QueueAt(i)) < steps[i].argCount)
               /\ steps[i].act = "lag"
                      => /\ i = Len(steps)
                         /\ \A k \in BindSteps : steps[k].id < steps[i].id
                         /\ _inBuffer = QueueAt(i)

\* the walk stopped at a click with one raw value queued, a younger
\* voltage request, which that value would satisfy, pending behind it
C19_Witness ==
    /\ outcome.op = "doCheck" /\ outcome.exc = NoExc
    /\ \E i \in LagSteps :
           /\ steps[i].event_code = CLICK
           /\ Len(_inBuffer) = 1
           /\ \E j \in 1..Len(_waitBuffer) :
                  /\ _waitBuffer[j].id > steps[i].id
                  /\ _waitBuffer[j].argCount = 1
                  /\ ~Expired(_waitBuffer[j], now)

\* C20: between operations, an empty pending queue goes with an empty raw
\* queue.
C20_Resynchronized == _waitBuffer = <<>> => _inBuffer = <<>>

\* a poll that removed the last pending request dropped the raw values its
\* walk had left
C20_Witness ==
    /\ outcome.op = "doCheck" /\ outcome.exc = NoExc
    /\ steps # <<>>
    /\ _waitBuffer = <<>> /\ _inBuffer = <<>>
    /\ Len(outcome.arg) > Len(BoundVals(steps))

RECURSIVE ReadValues(_)
\* the values the reads of a transport log delivered, in order
ReadValues(log) ==
    IF log = <<>> THEN <<>>
    ELSE IF Head(log).k = "read" /\ Head(log).d # <<>>
    THEN <<FromBytesBig(Head(log).d)>> \o ReadValues(Tail(log))
    ELSE ReadValues(Tail(log))

\* C21: when a read of the drain fails, the values read before it in that
\* drain are in the raw queue behind those it held; on the timed-out
\* condition the poll goes on to its walk and returns, on any other bus
\* error the poll raises that error.
C21_DrainTimeoutIsBenign ==
    [][(outcome'.op = "doCheck" /\ outcome'.fail.at > 0)
           => /\ outcome'.arg = _inBuffer \o ReadValues(bus')
              /\ IF outcome'.fail.err = "ETIMEDOUT"
                 THEN /\ outcome'.exc = NoExc
                      /\ outcome'.kind = "list"
                      /\ steps' # <<>>
                 ELSE /\ outcome'.exc = outcome'.fail.err
                      /\ result' = <<>>
                      /\ _inBuffer' = outcome'.arg]_vars

\* the second read of a drain timed out, and the poll returned the event of
\* the value the first read delivered
C21_Witness ==
    /\ outcome.op = "doCheck"
    /\ outcome.fail = [at |-> 2, err |-> "ETIMEDOUT"]
    /\ Len(ReadValues(bus)) = 1
    /\ outcome.exc = NoExc
    /\ Len(result) = 1

\* the read-triggering operations by name
ClickOps == {"checkTouchScreen", "readClick", "readTouchScreen"}
ReadOpNames == ClickOps \cup {"readAnalog", "readTemperature", "readVoltage"}

\* the kind and the arity stated for the operation `name`
StatedKind(name) ==
    IF name \in ClickOps THEN CLICK
    ELSE IF name = "readAnalog" THEN ANALOG
    ELSE IF name = "readTemperature" THEN TEMP
    ELSE VOLTAGE
StatedArity(name) == IF name \in ClickOps THEN 2 ELSE 1

\* the pending queue is in the order of issue: times do not decrease
OrderedByIssueTime(wb) ==
    \A i, j \in 1..Len(wb) : i < j => wb[i].timeStamp <= wb[j].timeStamp

\* C22: a read-triggering operation writes its opcode and then appends one
\* entry (kind, arity, current time) at the tail of the pending queue; when
\* the write fails it appends nothing.  The queue stays ordered by issue
\* time.
C22_RegistrationAppendsOne ==
    [][/\ outcome'.op \in ReadOpNames
           => IF outcome'.exc = NoExc
              THEN /\ bus' = <<W(outcome'.command)>>
                   /\ Len(_waitBuffer') = Len(_waitBuffer) + 1
                   /\ SubSeq(_waitBuffer', 1, Len(_waitBuffer)) = _waitBuffer
                   /\ LET e == _waitBuffer'[Len(_waitBuffer')]
                      IN  /\ e.event_code = StatedKind(outcome'.op)
                          /\ e.argCount = StatedArity(outcome'.op)
                          /\ e.timeStamp = now
              ELSE /\ bus' = <<>>
                   /\ _waitBuffer' = _waitBuffer
       /\ OrderedByIssueTime(_waitBuffer')]_vars

\* a click request was appended behind an older request, later in time
C22_Witness ==
    /\ outcome.op = "readClick" /\ outcome.exc = NoExc
    /\ Len(_waitBuffer) >= 2
    /\ _waitBuffer[Len(_waitBuffer)].argCount = 2
    /\ _waitBuffer[Len(_waitBuffer)].timeStamp = now
    /\ _waitBuffer[1].timeStamp < now

\* C29: a poll makes at most as many reads as there are requests pending
\* when it starts, each of two bytes whatever the request's arity; with no
\* request pending it makes no read, returns the empty list and leaves both
\* queues empty; a lone request of arity 2, registered with the raw queue
\* empty, is not satisfied by the first poll after it.
C29_OneReadPerPendingRequest ==
    [][outcome'.op = "doCheck"
          => /\ Len(bus') <= Len(_waitBuffer)
             /\ \A i \in 1..Len(bus') :
                    bus'[i].k = "read" /\ Len(bus'[i].d) \in {0, 2}
             /\ _waitBuffer = <<>>
                    => /\ bus' = <<>>
                       /\ outcome'.exc = NoExc /\ result' = <<>>
                       /\ _waitBuffer' = <<>> /\ _inBuffer' = <<>>
             /\ (Len(_waitBuffer) = 1 /\ _waitBuffer[1].argCount = 2
                    /\ _waitBuffer[1].id \notin satisfied
                    /\ _inBuffer = <<>>)
                    => /\ result' = <<>>
                       /\ _waitBuffer[1].id \notin satisfied'
                       /\ Len(_inBuffer') <= 1]_vars

\* the first poll after a lone request of arity 2: one value read, no event
C29_Witness ==
    /\ outcome.op = "doCheck" /\ outcome.exc = NoExc
    /\ Len(_waitBuffer) = 1 /\ _waitBuffer[1].argCount = 2
    /\ Len(bus) = 1 /\ Len(ReadValues(bus)) = 1
    /\ _inBuffer = ReadValues(bus)
    /\ satisfied = {}
    /\ result = <<>>

\* C30: a poll that raises because a read of its drain failed with a bus
\* error other than the timed-out condition leaves the pending queue as it
\* was and produces no event; the raw queue is what it was, followed by the
\* values read before the failure.
C30_FatalReadLeavesQueues ==
    [][(outcome'.op = "doCheck" /\ outcome'.fail.at > 0
           /\ outcome'.fail.err # "ETIMEDOUT")
          => /\ outcome'.exc = outcome'.fail.err
             /\ _waitBuffer' = _waitBuffer
             /\ result' = <<>> /\ steps' = <<>>
             /\ satisfied' = satisfied /\ expiredSeen' = expiredSeen
             /\ Len(bus') = outcome'.fail.at
             /\ _inBuffer' = _inBuffer \o ReadValues(SubSeq(bus', 1, Len(bus') - 1))
      ]_vars

\* the second read of a poll failed with EIO after the first delivered a
\* value, which is in the raw queue behind an older one
C30_Witness ==
    /\ outcome.op = "doCheck" /\ outcome.exc = "EIO"
    /\ outcome.fail = [at |-> 2, err |-> "EIO"]
    /\ Len(_waitBuffer) >= 2
    /\ Len(_inBuffer) = 2
    /\ <<_inBuffer[2]>> = ReadValues(bus)
    /\ result = <<>>

----------------------------------------------------------------------------
(* Liveness of the response correlator, checked under SpecLive *)

\* C23: with the clock advancing and polls being made, none of which
\* meets a fatal bus error, every pending request is eventually removed from
\* the pending queue.
C23_EveryRequestRemoved ==
    \A id \in 1..MaxRequests : (id \in PendingIds) ~> (id \notin PendingIds)

\* the same on the device build, where _readInt does not raise
C23_RemovedOnDevice ==
    \A id \in 1..MaxRequests :
        (platform = "micropython" /\ id \in PendingIds) ~> (id \notin PendingIds)

----------------------------------------------------------------------------
(* Properties of waitUntilReady, checked under SpecWait *)

\* the call in progress ends with this step
Ends == frame.pc # "idle" /\ frame'.pc = "idle"

\* C27: waitUntilReady probes again only after a probe failed with ENODEV;
\* it returns normally exactly when a probe write succeeded; any other
\* transport error ends the call at once with that error and no further
\* write; the timeout error is raised only when the caller gave a timeout
\* and the time elapsed since the call exceeds it.
C27_ReadinessWait ==
    [][/\ (frame.pc = "except" /\ frame'.pc = "try") => frame.err = "ENODEV"
       /\ (frame'.pc = "try" /\ frame' # frame)
              => (frame.pc = "idle" \/ frame.pc = "except")
       /\ (Ends /\ outcome'.exc = NoExc)
              <=> (frame.pc = "try" /\ bus' = <<W(<<0>>)>>)
       /\ (frame.pc = "except" /\ frame.err # "ENODEV" /\ frame' # frame)
              => (Ends /\ outcome'.exc = frame.err /\ bus' = <<>>)
       /\ (Ends /\ outcome'.exc = "ETIMEOUT")
              => (frame.timeOut > 0 /\ now - frame.t > frame.timeOut)
      ]_vars

\* a call that was retried until its timeout ran out
C27_Witness ==
    /\ outcome = Returned("ETIMEOUT")
    /\ frame = NoFrame
    /\ now >= 2000

\* C28: with a timeout given by the caller, 0 included, and the clock
\* advancing, a call of waitUntilReady ends although the device never
\* becomes ready.
C28_TimedWaitTerminates ==
    \A timeOut \in TimeOuts \ {-1} :
        (frame.pc # "idle" /\ frame.timeOut = timeOut) ~> (frame.pc = "idle")

\* the same for the timeouts greater than 0
C28_PositiveTimeoutTerminates ==
    \A timeOut \in {t \in TimeOuts : t > 0} :
        (frame.pc # "idle" /\ frame.timeOut = timeOut) ~> (frame.pc = "idle")

\* without a timeout, a call ends only on a probe that did not fail with
\* ENODEV, and a probe that failed with ENODEV is followed by another
C28_UntimedEndsOnOtherAnswer ==
    [][/\ (frame.timeOut = -1 /\ Ends)
              => (frame.pc = "try" \/ frame.err # "ENODEV")
       /\ (frame.timeOut = -1 /\ frame.pc = "except" /\ frame.err = "ENODEV"
              /\ frame' # frame)
              => frame'.pc = "try"
      ]_vars

====
